---------------------------- MODULE Spec2Model ----------------------------
(***************************************************************************)
(* A model of src/src/app.rs (MyceliaApp): the fetch bridge between the    *)
(* ehttp completion callback and the per-frame poll in update, the reload  *)
(* button, the view/edit/close widgets and the save/new persistence pair.  *)
(*                                                                         *)
(* A Rust String is a sequence of tokens (TLA+ strings); "" is << >>.      *)
(* A response body is such a sequence over the JSON tokens of Tokens.      *)
(* Option<T> and Result<T, E> are records, so that the tag of a value is   *)
(* exactly the tag the Rust type has.                                      *)
(*                                                                         *)
(* update runs on the UI thread and the completion callback of ehttp runs  *)
(* on a thread of its own (native build), so the callback may run between  *)
(* the poll at the top of update and the widgets further down: one frame   *)
(* is the Poll step followed by one widget step.                           *)
(***************************************************************************)
EXTENDS Integers, Sequences, FiniteSets

VARIABLES
    api_key,           \* MyceliaApp.api_key
    editor_component,  \* MyceliaApp.editor_component: [entry : Option<Entry>]
    view_entry,        \* MyceliaApp.view_entry
    text,              \* MyceliaApp.text: Option<Result<String, String>>
    entries,           \* MyceliaApp.entries: Vec<Entry>
    rx,                \* MyceliaApp.rx: the request whose Receiver is held
    storage,           \* the host's key/value store under eframe::APP_KEY
    pc,                \* "poll": next frame starts; "ui": widgets; "stopped"
    nreq,              \* requests dispatched by this process
    result_kind,       \* per request: which transfer result its callback got
    send,              \* per request: what tx.send returned in its callback
    chan,              \* per request: the channel's buffer
    taken,             \* per request: values try_recv handed to update
    wire               \* the transfer result fixed in advance (SpecBridge)

vars == <<api_key, editor_component, view_entry, text, entries, rx, storage,
          pc, nreq, result_kind, send, chan, taken, wire>>

app == <<api_key, editor_component, view_entry, text, entries, rx>>

fetches == <<nreq, result_kind, send, chan, taken>>

-----------------------------------------------------------------------------
(* Bounds *)

MaxRequests == 2   \* reload clicks per process run
MaxWireLen == 5    \* tokens in a response body (SpecBridge)
MaxHeld == 2       \* entries held before the fetch (SpecBridge)

-----------------------------------------------------------------------------
(* Option, Result, Entry *)

None == [some |-> FALSE]

Some(v) == [some |-> TRUE, val |-> v]

Ok(v) == [ok |-> TRUE, val |-> v]

Err(v) == [ok |-> FALSE, val |-> v]

Entry(id, t) == [id |-> id, text |-> t]

DefaultApiKey == "Insert api key"

ApiKeys == {DefaultApiKey, "secret"}

EditTexts == {"edited"}

-----------------------------------------------------------------------------
(* JSON bodies and serde_json::from_str::<Vec<Entry>> *)

Objects == {"{id:1,text:hello}", "{id:2,text:world}"}

Tokens == {"[", "]", ","} \cup Objects

ObjEntry(tok) ==
    IF tok = "{id:1,text:hello}" THEN Entry("1", "hello") ELSE Entry("2", "world")

RECURSIVE SeqsUpTo(_, _)
SeqsUpTo(S, n) ==
    IF n = 0 THEN {<< >>}
    ELSE LET shorter == SeqsUpTo(S, n - 1)
         IN  shorter \cup {Append(s, x) : s \in shorter, x \in S}

\* the array's elements; st is "first" (after '['), "elem" (after an
\* element) or "comma" (after ','). The messages are serde_json's, without
\* their " at line L column C" suffix.
RECURSIVE ParseElems(_, _, _)
ParseElems(rest, acc, st) ==
    IF rest = << >> THEN Err(<<"EOF while parsing a list">>)
    ELSE LET c == Head(rest)
         IN  IF st = "elem"
             THEN IF c = "," THEN ParseElems(Tail(rest), acc, "comma")
                  ELSE IF c = "]"
                       THEN IF Tail(rest) = << >> THEN Ok(acc)
                            ELSE Err(<<"trailing characters">>)
                       ELSE Err(<<"expected , or ]">>)
             ELSE IF c \in Objects
                  THEN ParseElems(Tail(rest), Append(acc, ObjEntry(c)), "elem")
                  ELSE IF c = "]"
                       THEN IF st = "comma" THEN Err(<<"trailing comma">>)
                            ELSE IF Tail(rest) = << >> THEN Ok(acc)
                                 ELSE Err(<<"trailing characters">>)
                       ELSE IF c = "["
                            THEN Err(<<"invalid Entry">>)
                            ELSE Err(<<"expected value">>)

\* a bug: each parsed entry is put in front of the ones before it
from_str_prepends(body) ==
    LET Rev(q) == [i \in 1..Len(q) |-> q[Len(q) + 1 - i]]
        r == IF body = << >> THEN Err(<<"EOF while parsing a value">>)
             ELSE IF Head(body) = "["
                  THEN ParseElems(Tail(body), << >>, "first")
             ELSE IF Head(body) \in Objects
                  THEN Err(<<"invalid type: map, expected a sequence">>)
                  ELSE Err(<<"expected value">>)
    IN  IF r.ok THEN Ok(Rev(r.val)) ELSE r

from_str(body) ==
    IF body = << >> THEN Err(<<"EOF while parsing a value">>)
    ELSE IF Head(body) = "[" THEN ParseElems(Tail(body), << >>, "first")
    ELSE IF Head(body) \in Objects
         THEN Err(<<"invalid type: map, expected a sequence">>)
         ELSE Err(<<"expected value">>)

ParseFailed(e) == <<"Failed to parse JSON: ">> \o e

-----------------------------------------------------------------------------
(* Transfer results: the argument ehttp hands to the completion callback *)

\* the bodies servers send in Spec: no body, the empty array, arrays of one
\* and two entries, a truncated array, an object that is no array
Bodies ==
    { << >>,
      <<"[", "]">>,
      <<"[", "{id:1,text:hello}", "]">>,
      <<"[", "{id:1,text:hello}", ",", "{id:2,text:world}", "]">>,
      <<"[", "{id:2,text:world}", ",">>,
      <<"{id:1,text:hello}">> }

\* bodies a server sends with an error status
ServerMessages == {<<"unauthorized">>, ParseFailed(<<"expected value">>)}

TransportErrors == {<<"connection refused">>, <<"timed out">>}

\* Ok(Response): ok is the status flag, utf8 is Response::text(), None when
\* the body's bytes are not UTF-8
Response(ok, utf8) == [transport |-> FALSE, ok |-> ok, utf8 |-> utf8]

\* Err(description)
TransportError(desc) == [transport |-> TRUE, ok |-> FALSE, utf8 |-> Some(desc)]

ResultsOver(bodies) ==
    {Response(TRUE, Some(b)) : b \in bodies \cup ServerMessages}
      \cup {Response(FALSE, Some(b)) : b \in ServerMessages \cup {<< >>}}
      \cup {Response(o, None) : o \in BOOLEAN}
      \cup {TransportError(d) : d \in TransportErrors}

TransferResults == ResultsOver(Bodies)

\* which arm of the callback's match a result takes
KindOf(r) ==
    IF r.transport THEN "transport"
    ELSE IF ~r.utf8.some THEN "not_utf8"
    ELSE IF r.ok THEN "success" ELSE "server"

-----------------------------------------------------------------------------
(* Persistence: the serde derive of MyceliaApp and EditorComponent *)

DefaultEditor == [entry |-> None]

\* a bug: editor_component marked #[serde(skip)] like the fields after it
Serialize_skips_editor ==
    [api_key |-> api_key, editor_component |-> [entry |-> None]]

\* the fields without #[serde(skip)]
Serialize == [api_key |-> api_key, editor_component |-> editor_component]

\* eframe::get_value(..).unwrap_or_default(): skipped fields take Default
Loaded ==
    IF storage.some THEN storage.val
    ELSE [api_key |-> DefaultApiKey, editor_component |-> DefaultEditor]

-----------------------------------------------------------------------------
Init ==
    /\ api_key = DefaultApiKey
    /\ editor_component = DefaultEditor
    /\ view_entry = None
    /\ text = None
    /\ entries = << >>
    /\ rx = None
    /\ storage = None
    /\ pc = "poll"
    /\ nreq = 0
    /\ result_kind = << >>
    /\ send = << >>
    /\ chan = << >>
    /\ taken = << >>
    /\ wire = None

-----------------------------------------------------------------------------
(* make_request and the completion callback *)

\* the value the callback hands to tx.send, None when it panics instead:
\* res.text().unwrap() panics on a body that is not UTF-8. The panic ends
\* the callback's thread and drops tx unsent; try_recv of that channel then
\* never returns Ok. (The Authorization header built from api_key does not
\* reach the callback and is left out.)
fetch_callback(r) ==
    IF r.transport THEN Some(Err(r.utf8.val))
    ELSE IF ~r.utf8.some THEN None
    ELSE IF r.ok THEN Some(Ok(r.utf8.val))
    ELSE Some(Err(r.utf8.val))

\* a bug: a Receiver that is held is kept, the new one is dropped
make_request_keeps_rx ==
    /\ nreq' = nreq + 1
    /\ rx' = IF rx.some THEN rx ELSE Some(nreq + 1)
    /\ result_kind' = Append(result_kind, "pending")
    /\ send' = Append(send, "none")
    /\ chan' = Append(chan, << >>)
    /\ taken' = Append(taken, 0)

\* the new Receiver replaces the held one, whose channel buffer is dropped
\* with it; ehttp::fetch starts the transfer
make_request ==
    /\ nreq' = nreq + 1
    /\ rx' = Some(nreq + 1)
    /\ result_kind' = Append(result_kind, "pending")
    /\ send' = Append(send, "none")
    /\ chan' = Append([k \in 1..nreq |-> << >>], << >>)
    /\ taken' = Append(taken, 0)

\* a bug: one channel shared by all requests, every callback sends to the
\* Receiver that is held now
Callback_shared_channel(k, r) ==
    /\ pc # "stopped"
    /\ k \in 1..nreq
    /\ result_kind[k] = "pending"
    /\ result_kind' = [result_kind EXCEPT ![k] = KindOf(r)]
    /\ LET v == fetch_callback(r)
       IN  IF ~v.some
           THEN send' = [send EXCEPT ![k] = "panicked"] /\ chan' = chan
           ELSE IF rx.some
                THEN /\ send' = [send EXCEPT ![k] = "ok"]
                     /\ chan' = [chan EXCEPT ![rx.val] = Append(@, v.val)]
                ELSE send' = [send EXCEPT ![k] = "failed"] /\ chan' = chan
    /\ UNCHANGED <<app, storage, pc, nreq, taken, wire>>

\* the callback of request k runs with transfer result r. tx.send succeeds
\* while the Receiver of k is alive, which is while rx holds it; its Err is
\* discarded by `let _`.
Callback(k, r) ==
    /\ pc # "stopped"
    /\ k \in 1..nreq
    /\ result_kind[k] = "pending"
    /\ result_kind' = [result_kind EXCEPT ![k] = KindOf(r)]
    /\ LET v == fetch_callback(r)
       IN  IF ~v.some
           THEN send' = [send EXCEPT ![k] = "panicked"] /\ chan' = chan
           ELSE IF rx = Some(k)
                THEN /\ send' = [send EXCEPT ![k] = "ok"]
                     /\ chan' = [chan EXCEPT ![k] = Append(@, v.val)]
                ELSE send' = [send EXCEPT ![k] = "failed"] /\ chan' = chan
    /\ UNCHANGED <<app, storage, pc, nreq, taken, wire>>

Complete(k) ==
    /\ wire = None
    /\ \E r \in TransferResults : Callback(k, r)

-----------------------------------------------------------------------------
(* update: the poll at the top of the frame *)

\* a bug: entries.clear() left out, a body that fails to parse keeps the
\* entries held
on_result_no_clear(held, result) ==
    IF result.ok
    THEN LET parsed == from_str(result.val)
         IN  IF parsed.ok
             THEN [entries |-> parsed.val, text |-> Some(Ok(<< >>))]
             ELSE [entries |-> held,
                   text |-> Some(Err(ParseFailed(parsed.val)))]
    ELSE [entries |-> held, text |-> Some(result)]

\* a change of behaviour: entries.clear() before the match, every outcome
\* clears the entries held
on_result_clears_first(held, result) ==
    IF result.ok
    THEN LET parsed == from_str(result.val)
         IN  IF parsed.ok
             THEN [entries |-> parsed.val, text |-> Some(Ok(<< >>))]
             ELSE [entries |-> << >>,
                   text |-> Some(Err(ParseFailed(parsed.val)))]
    ELSE [entries |-> << >>, text |-> Some(result)]

\* the arms of `match result`: the entries and the text update leaves,
\* given the entries held and the value try_recv returned
on_result(held, result) ==
    IF result.ok
    THEN LET parsed == from_str(result.val)
         IN  IF parsed.ok
             THEN [entries |-> parsed.val, text |-> Some(Ok(<< >>))]
             ELSE [entries |-> << >>,
                   text |-> Some(Err(ParseFailed(parsed.val)))]
    ELSE [entries |-> held, text |-> Some(result)]

\* a bug: the Err of try_recv (nothing sent yet, or the sender is gone) is
\* taken for a failed request
Poll_err_is_failure ==
    /\ pc = "poll"
    /\ pc' = "ui"
    /\ IF text = None /\ rx.some
       THEN IF chan[rx.val] # << >>
            THEN /\ entries' = on_result(entries, Head(chan[rx.val])).entries
                 /\ text' = on_result(entries, Head(chan[rx.val])).text
                 /\ chan' = [chan EXCEPT ![rx.val] = Tail(@)]
                 /\ taken' = [taken EXCEPT ![rx.val] = @ + 1]
                 /\ rx' = None
            ELSE /\ text' = Some(Err(<<"receiving on an empty channel">>))
                 /\ rx' = None
                 /\ UNCHANGED <<entries, chan, taken>>
       ELSE UNCHANGED <<entries, text, chan, taken, rx>>
    /\ UNCHANGED <<api_key, editor_component, view_entry, storage, nreq,
                   result_kind, send, wire>>

\* a bug: the outcome is applied and the Receiver stays in rx
Poll_keeps_rx ==
    /\ pc = "poll"
    /\ pc' = "ui"
    /\ IF text = None /\ rx.some /\ chan[rx.val] # << >>
       THEN /\ entries' = on_result(entries, Head(chan[rx.val])).entries
            /\ text' = on_result(entries, Head(chan[rx.val])).text
            /\ chan' = [chan EXCEPT ![rx.val] = Tail(@)]
            /\ taken' = [taken EXCEPT ![rx.val] = @ + 1]
            /\ rx' = rx
       ELSE UNCHANGED <<entries, text, chan, taken, rx>>
    /\ UNCHANGED <<api_key, editor_component, view_entry, storage, nreq,
                   result_kind, send, wire>>

Poll ==
    /\ pc = "poll"
    /\ pc' = "ui"
    /\ IF text = None /\ rx.some /\ chan[rx.val] # << >>
       THEN /\ entries' = on_result(entries, Head(chan[rx.val])).entries
            /\ text' = on_result(entries, Head(chan[rx.val])).text
            /\ chan' = [chan EXCEPT ![rx.val] = Tail(@)]
            /\ taken' = [taken EXCEPT ![rx.val] = @ + 1]
            /\ rx' = None
       ELSE UNCHANGED <<entries, text, chan, taken, rx>>
    /\ UNCHANGED <<api_key, editor_component, view_entry, storage, nreq,
                   result_kind, send, wire>>

-----------------------------------------------------------------------------
(* update: the widgets; one input event per frame *)

NoInput ==
    /\ pc = "ui"
    /\ pc' = "poll"
    /\ UNCHANGED <<app, storage, fetches, wire>>

EditApiKey(key) ==
    /\ pc = "ui"
    /\ key # api_key
    /\ api_key' = key
    /\ pc' = "poll"
    /\ UNCHANGED <<editor_component, view_entry, text, entries, rx, storage,
                   fetches, wire>>

\* a bug: the list is emptied as soon as reload is clicked
Reload_clears_entries ==
    /\ pc = "ui"
    /\ nreq < MaxRequests
    /\ text' = None
    /\ make_request
    /\ pc' = "poll"
    /\ entries' = << >>
    /\ UNCHANGED <<api_key, editor_component, view_entry, storage, wire>>

\* a bug: the outcome stored by the request before stays in text
Reload_keeps_text ==
    /\ pc = "ui"
    /\ nreq < MaxRequests
    /\ text' = text
    /\ make_request
    /\ pc' = "poll"
    /\ UNCHANGED <<api_key, editor_component, view_entry, entries, storage,
                   wire>>

Reload ==
    /\ pc = "ui"
    /\ nreq < MaxRequests
    /\ text' = None
    /\ make_request
    /\ pc' = "poll"
    /\ UNCHANGED <<api_key, editor_component, view_entry, entries, storage,
                   wire>>

\* EditorComponent::show: the multiline text edit of the loaded entry
EditorType(t) ==
    /\ pc = "ui"
    /\ editor_component.entry.some
    /\ editor_component.entry.val.text # t
    /\ editor_component' =
           [entry |-> Some(Entry(editor_component.entry.val.id, t))]
    /\ pc' = "poll"
    /\ UNCHANGED <<api_key, view_entry, text, entries, rx, storage,
                   fetches, wire>>

\* EditorComponent::show: the close button
EditorClose ==
    /\ pc = "ui"
    /\ editor_component.entry.some
    /\ editor_component' = [entry |-> None]
    /\ pc' = "poll"
    /\ UNCHANGED <<api_key, view_entry, text, entries, rx, storage,
                   fetches, wire>>

\* the edit button of row i: EditorComponent::edit(entry.clone())
ClickEdit(i) ==
    /\ pc = "ui"
    /\ i \in 1..Len(entries)
    /\ editor_component' = [entry |-> Some(entries[i])]
    /\ pc' = "poll"
    /\ UNCHANGED <<api_key, view_entry, text, entries, rx, storage,
                   fetches, wire>>

\* the view button of row i
ClickView(i) ==
    /\ pc = "ui"
    /\ i \in 1..Len(entries)
    /\ view_entry' = Some(entries[i])
    /\ pc' = "poll"
    /\ UNCHANGED <<api_key, editor_component, text, entries, rx, storage,
                   fetches, wire>>

-----------------------------------------------------------------------------
(* save at shutdown, new at the next start *)

\* eframe calls save and the process ends; its fields keep their last
\* values while pc = "stopped" and nothing reads them
Shutdown ==
    /\ pc = "poll"
    /\ storage' = Some(Serialize)
    /\ pc' = "stopped"
    /\ UNCHANGED <<app, fetches, wire>>

\* MyceliaApp::new; the transfers of the ended process are gone
New ==
    /\ pc = "stopped"
    /\ api_key' = Loaded.api_key
    /\ editor_component' = Loaded.editor_component
    /\ view_entry' = None
    /\ text' = None
    /\ entries' = << >>
    /\ rx' = None
    /\ pc' = "poll"
    /\ nreq' = 0
    /\ result_kind' = << >>
    /\ send' = << >>
    /\ chan' = << >>
    /\ taken' = << >>
    /\ UNCHANGED <<storage, wire>>

-----------------------------------------------------------------------------
Widget ==
    \/ NoInput
    \/ Reload
    \/ EditorClose
    \/ \E key \in ApiKeys : EditApiKey(key)
    \/ \E t \in EditTexts : EditorType(t)
    \/ \E i \in 1..Len(entries) : ClickEdit(i)
    \/ \E i \in 1..Len(entries) : ClickView(i)

Next ==
    \/ Poll
    \/ Widget
    \/ \E k \in 1..nreq : Complete(k)
    \/ Shutdown
    \/ New

Spec == Init /\ [][Next]_vars

-----------------------------------------------------------------------------
(* The bridge alone: one request in flight whose transfer result, any     *)
(* result over the bodies of at most MaxWireLen tokens, is on the wire.   *)

WireResults == ResultsOver(SeqsUpTo(Tokens, MaxWireLen))

HeldEntries == SeqsUpTo({ObjEntry(o) : o \in Objects}, MaxHeld)

\* a first fetch was consumed and left `entries`; reload was clicked again
InitBridge ==
    /\ api_key = DefaultApiKey
    /\ editor_component = DefaultEditor
    /\ view_entry = None
    /\ text = None
    /\ entries \in HeldEntries
    /\ rx = Some(2)
    /\ storage = None
    /\ pc = "poll"
    /\ nreq = 2
    /\ result_kind = <<"success", "pending">>
    /\ send = <<"ok", "none">>
    /\ chan = << << >>, << >> >>
    /\ taken = <<1, 0>>
    /\ wire \in {Some(r) : r \in WireResults}

Deliver ==
    /\ wire.some
    /\ Callback(nreq, wire.val)

NextBridge ==
    \/ Deliver
    \/ Poll
    \/ NoInput

SpecBridge == InitBridge /\ [][NextBridge]_vars

-----------------------------------------------------------------------------
(* Claims *)

Requests == 1..nreq

\* C1: the poller observes at most one outcome per dispatched request: once
\* a poll has received the outcome of a request its handle is discarded (rx
\* no longer holds it and its channel is empty), so no later poll yields an
\* outcome of that request again.
C1_AtMostOneOutcome ==
    \A k \in Requests :
        /\ taken[k] <= 1
        /\ taken[k] = 1 => rx # Some(k) /\ chan[k] = << >>

\* the outcome of request 1 was consumed and frames went on after it (the
\* edit button of a fetched row was clicked, the next poll ran)
C1_Witness ==
    /\ nreq = 1
    /\ taken[1] = 1
    /\ editor_component.entry.some
    /\ pc = "ui"

\* the poll step of this frame hands the outcome of request k to update
Applies(k) == nreq' = nreq /\ taken'[k] > taken[k]

\* C2 (amended): whenever a request was dispatched before an earlier one's
\* outcome was consumed, every outcome the poller applies is the one the
\* callback of the most recently dispatched request sent; the earlier
\* request's outcome is never observed, whether its send failed or
\* succeeded into the channel that was then dropped.
C2_LastDispatchWins ==
    [][\A k \in Requests :
          Applies(k) =>
            /\ k = nreq
            /\ send[k] = "ok"
            /\ \A j \in 1..(nreq - 1) : chan[j] = << >> /\ taken'[j] = taken[j]
      ]_vars

\* request 1 was superseded before its outcome was consumed, both callbacks
\* have run and the outcome of request 2 was applied
C2_Witness ==
    /\ nreq = 2
    /\ taken = <<0, 1>>
    /\ send[1] \in {"ok", "failed"}
    /\ text.some

\* C2 as stated: the send of a request that was superseded before its
\* outcome was consumed fails.
C2_EarlierSendFails ==
    \A k \in Requests :
        (k < nreq /\ taken[k] = 0 /\ send[k] # "none") => send[k] # "ok"

\* C3 as stated: at most one transfer is in flight.
C3_OneTransferInFlight ==
    Cardinality({k \in Requests : result_kind[k] = "pending"}) <= 1

\* C3 (amended): of the transfers in flight at most one, the most recently
\* dispatched, has its handle held; every earlier request is orphaned (its
\* Receiver is not held and its channel holds nothing), whether or not its
\* transfer is still running.
C3_OneHandleHeld ==
    /\ rx.some => rx.val = nreq
    /\ \A k \in 1..(nreq - 1) : rx # Some(k) /\ chan[k] = << >>

\* two transfers in flight at once, after two reload clicks
C3_Witness ==
    /\ nreq = 2
    /\ result_kind = <<"pending", "pending">>
    /\ rx = Some(2)

-----------------------------------------------------------------------------
(* What the claims call a valid body, a decode failure, a consumed outcome *)

\* body is '[', Entry objects separated by ',', ']'
IsEntryArray(body) ==
    /\ Len(body) >= 2
    /\ body[1] = "["
    /\ body[Len(body)] = "]"
    /\ \/ Len(body) = 2
       \/ /\ Len(body) % 2 = 1
          /\ \A i \in 2..(Len(body) - 1) :
                IF i % 2 = 0 THEN body[i] \in Objects ELSE body[i] = ","

\* the Entry sequence a valid body encodes
ArrayEntries(body) == [i \in 1..((Len(body) - 1) \div 2) |-> ObjEntry(body[2 * i])]

IsDecodeFailure(t) ==
    /\ t.some
    /\ ~t.val.ok
    /\ Len(t.val.val) >= 1
    /\ t.val.val[1] = "Failed to parse JSON: "

\* SpecBridge: the outcome of the request on the wire was consumed
WireConsumed == wire.some /\ taken[nreq] = 1

\* SpecBridge: the poller consumed Success(body) for the body on the wire
ConsumedSuccess == WireConsumed /\ KindOf(wire.val) = "success"

\* C4: when the poller consumes Success(body) and body is no valid JSON
\* array of Entry records, the stored outcome is a decode failure and
\* entries is empty, whatever entries were held before.
C4_MalformedBodyClears ==
    (ConsumedSuccess /\ ~IsEntryArray(wire.val.utf8.val)) =>
        IsDecodeFailure(text) /\ entries = << >>

\* a truncated array was consumed
C4_Witness ==
    /\ ConsumedSuccess
    /\ Len(wire.val.utf8.val) >= 3
    /\ Head(wire.val.utf8.val) = "["
    /\ ~IsEntryArray(wire.val.utf8.val)
    /\ IsDecodeFailure(text)

\* C10: when the poller consumes Success(body) and body is a valid JSON
\* array encoding the Entry sequence S, entries equals S in content and
\* order afterwards, whatever was held before, and the stored outcome is a
\* success.
C10_ValidBodyRoundTrips ==
    (ConsumedSuccess /\ IsEntryArray(wire.val.utf8.val)) =>
        /\ entries = ArrayEntries(wire.val.utf8.val)
        /\ text = Some(Ok(<< >>))

\* an array of two different entries was consumed
C10_Witness ==
    /\ ConsumedSuccess
    /\ IsEntryArray(wire.val.utf8.val)
    /\ Len(entries) = 2
    /\ entries[1] # entries[2]

-----------------------------------------------------------------------------
\* C5 as stated: the callback maps every transfer result to its outcome: a
\* response with success status gives Success(body), one with an error
\* status and body b gives Failure(b), a transport failure gives
\* Failure(description). (SpecBridge: the value is in the channel from the
\* callback's return until the poll takes it.)
C5_CallbackMapsEveryResult ==
    (wire.some /\ result_kind[nreq] # "pending" /\ taken[nreq] = 0) =>
        /\ Len(chan[nreq]) = 1
        /\ LET r == wire.val
               v == chan[nreq][1]
           IN  IF r.transport THEN v = Err(r.utf8.val)
               ELSE v.ok = r.ok /\ (r.utf8.some => v.val = r.utf8.val)

\* the variant of the Result that text holds
ResultTag(t) == IF t.val.ok THEN "Ok" ELSE "Err"

\* the transfer results that are transport or server-reported failures
PlainFailures ==
    {TransportError(d) : d \in TransportErrors}
      \cup {Response(FALSE, Some(b)) : b \in ServerMessages}

\* C6 as stated: a decode failure is tagged differently from a transport or
\* server-reported failure: the state held after consuming a decode failure
\* differs in its tag from the state update holds after consuming any
\* transport or server-reported failure.
C6_KindsTaggedApart ==
    (ConsumedSuccess /\ IsDecodeFailure(text)) =>
        \A r \in PlainFailures :
            ResultTag(on_result(entries, fetch_callback(r).val).text)
                # ResultTag(text)

\* the step MyceliaApp::new takes at the start after a shutdown; the
\* unprimed fields are those the ended process had when save ran
Restart == pc = "stopped" /\ pc' = "poll"

\* C7 as stated: across save and restart only the API key survives, every
\* other field is empty/default.
C7_OnlyApiKeySurvives ==
    [][Restart =>
          /\ api_key' = api_key
          /\ entries' = << >>
          /\ text' = None
          /\ rx' = None
          /\ view_entry' = None
          /\ editor_component'.entry = None
      ]_vars

\* C7 (amended): across save and restart the API key and the editor's entry
\* (with the edits made to it) survive; entries, text, rx and view_entry
\* are empty/default.
C7_KeyAndEditorSurvive ==
    [][Restart =>
          /\ api_key' = api_key
          /\ editor_component' = editor_component
          /\ entries' = << >>
          /\ text' = None
          /\ rx' = None
          /\ view_entry' = None
      ]_vars

\* a restarted process (nothing fetched yet) that holds the key typed and
\* the entry edited in the process before it
C7_Witness ==
    /\ pc = "poll"
    /\ nreq = 0
    /\ storage.some
    /\ api_key = "secret"
    /\ editor_component.entry.some
    /\ editor_component.entry.val.text = "edited"
    /\ entries = << >>
    /\ view_entry = None

\* the stored outcome is the failure's message
StoresMessage(t) ==
    IF KindOf(wire.val) = "success" THEN IsDecodeFailure(t)
    ELSE t = Some(Err(wire.val.utf8.val))

\* C8 as stated: after the poller consumes a failure of any kind the stored
\* outcome is the error message and entries no longer holds the entries
\* fetched before.
C8_FailureReplacesEntries ==
    (WireConsumed /\ text.some /\ ~text.val.ok) =>
        StoresMessage(text) /\ entries = << >>

\* C8 (amended): after the poller consumes a failure the stored outcome is
\* the error message; a decode failure empties entries, a transport or
\* server-reported failure leaves entries as they were.
C8_FailureStored ==
    [][(wire.some /\ taken[nreq] = 0 /\ taken'[nreq] = 1 /\ ~text'.val.ok) =>
          /\ StoresMessage(text')
          /\ IF KindOf(wire.val) = "success" THEN entries' = << >>
             ELSE entries' = entries
      ]_vars

\* a transport failure was consumed and the entries fetched before are
\* still held
C8_Witness ==
    /\ WireConsumed
    /\ KindOf(wire.val) = "transport"
    /\ text = Some(Err(wire.val.utf8.val))
    /\ Len(entries) = 2

\* C9 as stated: every transfer that has completed produced exactly one
\* terminal value: its callback called tx.send once, whatever the transfer
\* result.
C9_ExactlyOneTerminalValue ==
    \A k \in Requests :
        result_kind[k] # "pending" => send[k] \in {"ok", "failed"}

-----------------------------------------------------------------------------
\* the poll at the top of a frame runs in this step
PollStep == pc = "poll" /\ pc' = "ui"

\* no outcome is ready for the poll: no handle is held, or the held
\* channel is empty (the transfer still runs, or its callback sent nothing)
NothingReady == ~rx.some \/ chan[rx.val] = << >>

\* C11: a poll step that finds no outcome ready takes no action: text,
\* entries, rx, api_key, view_entry and the editor's entry are unchanged;
\* and the poll never waits: whenever a frame starts the poll step can be
\* taken, ready or not, so this repeats for any number of frames.
C11_NotReadyPollIsNoOp ==
    [][/\ (PollStep /\ NothingReady) =>
            /\ text' = text
            /\ entries' = entries
            /\ rx' = rx
            /\ api_key' = api_key
            /\ view_entry' = view_entry
            /\ editor_component' = editor_component
       /\ pc = "poll" => ENABLED Poll
      ]_vars

\* a poll has just found the held channel empty, its transfer still running
C11_Witness ==
    /\ pc = "ui"
    /\ rx.some
    /\ result_kind[rx.val] = "pending"
    /\ chan[rx.val] = << >>
    /\ text = None

-----------------------------------------------------------------------------
\* this step is the poll consuming a Success(body) outcome
ConsumesSuccess ==
    /\ PollStep
    /\ text = None
    /\ rx.some
    /\ chan[rx.val] # << >>
    /\ Head(chan[rx.val]).ok
    /\ taken'[rx.val] = taken[rx.val] + 1

\* C12: within a process run the only step that modifies entries is the
\* poll step that consumes a Success outcome: reload, polls that find
\* nothing ready, the poll that consumes a Failure outcome (transport or
\* server-reported), and the view, edit, close and typing widgets all leave
\* entries unchanged. (The step of MyceliaApp::new builds the state of a new
\* process and is not a step of the run.)
C12_EntriesLiveUntilSuccess ==
    [][(pc # "stopped" /\ entries' # entries) => ConsumesSuccess]_vars

\* entries fetched by request 1 are still held after request 2 was
\* dispatched and its Failure outcome was consumed
C12_Witness ==
    /\ nreq = 2
    /\ taken = <<1, 1>>
    /\ result_kind[2] \in {"transport", "server"}
    /\ text.some
    /\ ~text.val.ok
    /\ Len(entries) = 2

\* C13: a held handle implies no stored outcome (rx is Some implies text
\* is None), so the text.is_none() guard of update never keeps the poll
\* from a pending request.
C13_HandleImpliesNoText == rx.some => text = None

\* a request dispatched after an outcome was stored: its value waits in the
\* channel and text is None again
C13_Witness ==
    /\ nreq = 2
    /\ taken = <<1, 0>>
    /\ rx = Some(2)
    /\ chan[2] # << >>
    /\ text = None

=============================================================================
